---- MODULE Spec2Model ----
(***************************************************************************)
(* Model of backup-flexreports.py: the CloudHealth FlexReports backup      *)
(* run.  main() is a sequential pipeline (credential, authenticate,        *)
(* datasets, reports per dataset, download per report, zip, cleanup);      *)
(* the model steps it at every call that performs I/O, because each such   *)
(* call can return, raise, or be interrupted by the operator.              *)
(*                                                                         *)
(* Python strings are sequences of one-character strings.  Python values  *)
(* that may be None, a string, a dict or a list are tagged records.        *)
(***************************************************************************)
EXTENDS Integers, Sequences, FiniteSets, TLC

VARIABLES
    pc,                \* position of main(): the stage about to run
    environ,           \* os.environ, a function from variable names to strings
    API_KEY,           \* the module-level constant API_KEY (line 41)
    stdin,             \* what the operator types if input() is reached
    prompted,          \* whether input() has been called
    api_key,           \* main's api_key
    access_token,      \* main's access_token (a Python value)
    datasets,          \* main's datasets (a Python value)
    ds_idx,            \* position of the "for dataset in datasets" loop
    current_timestamp, \* main's current_timestamp
    all_reports,       \* main's all_reports
    report_lists,      \* what each call of get_flexreports_for_dataset returned
    report_idx,        \* position of the download loop
    downloaded_files,  \* main's downloaded_files
    report_name,       \* download_flexreport's report_name (last call)
    report_name_clean, \* download_flexreport's report_name_clean (last call)
    zipf,              \* create_backup_archive: state of the ZipFile object
    zip_idx,           \* position of the loop in create_backup_archive
    zip_filename,      \* main's zip_filename (set when the archiver returns)
    cleanup_idx,       \* position of the loop in cleanup_temp_files
    disk,              \* the working directory: filename -> content
    now,               \* the wall clock, in seconds
    requests,          \* every requests.post issued so far, in order
    response,          \* what the last requests.post received
    sigint,            \* whether the operator has pressed Ctrl-C
    out,               \* what main and cleanup printed on standard output
    exit_code          \* {} while main runs, {0} or {1} once it returned

vars == <<pc, environ, API_KEY, stdin, prompted, api_key, access_token,
          datasets, ds_idx, current_timestamp, all_reports, report_lists,
          report_idx, downloaded_files, report_name, report_name_clean, zipf,
          zip_idx, zip_filename, cleanup_idx, disk, now, requests, response,
          sigint, out, exit_code>>

(***************************************************************************)
(* Bounds of the model.                                                    *)
(***************************************************************************)
MaxDatasets == 2     \* longest dataset list the service returns
MaxReports  == 3     \* most reports enumerated over all datasets
MaxPerDataset == 2   \* most reports one enumeration returns
MaxClock    == 1     \* last value of the wall clock
MaxKeyLen   == 2     \* longest credential string tried
MaxNameLen  == 3     \* longest report name tried by the sanitizer runs

(***************************************************************************)
(* Python strings.                                                         *)
(***************************************************************************)
RECURSIVE StringsUpTo(_, _)
StringsUpTo(chars, n) ==
    IF n = 0 THEN {<<>>}
    ELSE LET shorter == StringsUpTo(chars, n - 1)
         IN  shorter \cup {Append(s, c) : s \in shorter, c \in chars}

Whitespace == {" ", "\t", "\n"}

strip_noop(s) == s

\* str.lstrip / str.rstrip / str.strip with no argument
RECURSIVE lstrip(_)
lstrip(s) ==
    IF s = <<>> THEN s
    ELSE IF Head(s) \in Whitespace THEN lstrip(Tail(s)) ELSE s

RECURSIVE rstrip(_)
rstrip(s) ==
    IF s = <<>> THEN s
    ELSE IF s[Len(s)] \in Whitespace THEN rstrip(SubSeq(s, 1, Len(s) - 1)) ELSE s

strip(s) == rstrip(lstrip(s))

\* str.replace(old, new) for one-character old and new
replace(s, old, new) ==
    CHOOSE r \in {[i \in 1..Len(v) |-> IF v[i] = old THEN new ELSE v[i]] : v \in {s}} : TRUE

\* truth value of a Python string
Truthy(s) == Len(s) > 0

(***************************************************************************)
(* Python values and exceptions.                                           *)
(***************************************************************************)
None == [kind |-> "None"]
PyStr(s) == [kind |-> "str", s |-> s]
PyDict(f) == [kind |-> "dict", f |-> f]
PyList(l) == [kind |-> "list", l |-> l]

Return(v) == [kind |-> "return", value |-> v]
\* an exception of class type; msg is the text str(e); about names the
\* dataset or report the text mentions (empty when it names none)
Raise(type, msg, about) == [kind |-> "raise", type |-> type, msg |-> msg, about |-> about]

ExceptionSubclasses_wrapped_only == {"Exception"}

\* classes that "except Exception" (line 378) catches: Exception and what
\* derives from it (KeyboardInterrupt derives from BaseException only)
ExceptionSubclasses ==
    {"Exception", "ValueError", "KeyError", "TypeError", "AttributeError",
     "EOFError", "OSError", "RequestException"}

\* "key in v" for a string key
contains(key, v) ==
    CASE v.kind = "dict" -> Return(key \in DOMAIN v.f)
      [] v.kind = "list" -> Return(\E i \in 1..Len(v.l) : v.l[i] = PyStr(key))
      [] OTHER -> Raise("TypeError", "argument is not iterable", <<>>)

\* "v[key]" for a string key
getitem(v, key) ==
    CASE v.kind = "dict" ->
            IF key \in DOMAIN v.f THEN Return(v.f[key])
            ELSE Raise("KeyError", key, <<>>)
      [] OTHER -> Raise("TypeError", "object is not subscriptable", <<>>)

(***************************************************************************)
(* get_api_key (lines 44-64).  stdin_entry is what input() returns when    *)
(* it is reached.                                                          *)
(***************************************************************************)
EnvVar == "CLOUDHEALTH_API_KEY"

environ_get(env, name) ==
    IF name \in DOMAIN env THEN PyStr(env[name]) ELSE None

get_api_key(env, hardcoded, stdin_entry) ==
    LET env_key == environ_get(env, EnvVar)
    IN  IF env_key # None /\ Truthy(env_key.s) /\ Truthy(strip(env_key.s))
        THEN [value |-> env_key.s, prompted |-> FALSE,
              printed |-> "Using API key from environment variable..."]
        ELSE IF Truthy(hardcoded) /\ Truthy(strip(hardcoded))
        THEN [value |-> hardcoded, prompted |-> FALSE,
              printed |-> "Using hardcoded API key..."]
        ELSE [value |-> stdin_entry, prompted |-> TRUE, printed |-> ""]

(***************************************************************************)
(* The filename sanitizer of download_flexreport (lines 213-217).          *)
(***************************************************************************)
invalid_chars_no_backslash == <<"<", ">", ":", "\"", "/", "|", "?", "*">>

\* invalid_chars = '<>:"/\\|?*' (line 215)
invalid_chars == <<"<", ">", ":", "\"", "/", "\\", "|", "?", "*">>

RECURSIVE replace_each(_, _, _)
\* the loop "for char in invalid_chars: s = s.replace(char, '_')"
replace_each(s, chars, new) ==
    IF chars = <<>> THEN s
    ELSE replace_each(replace(s, Head(chars), new), Tail(chars), new)

Sanitize(name) == replace_each(replace(name, " ", "_"), invalid_chars, "_")

\* os.path.basename: what follows the last "/"
RECURSIVE basename(_)
basename(path) ==
    IF path = <<>> THEN path
    ELSE IF \E i \in 1..Len(path) : path[i] = "/"
         THEN basename(Tail(path))
         ELSE path

\* datetime.now().strftime("%Y_%m_%d_%H_%M_%S") for clock value t
strftime(t) == <<"2026_11_05_00_00_0", ToString(t)>>

output_filename_own_clock(clean, timestamp) ==
    clean \o <<"_">> \o strftime(now) \o <<".json">>

\* f'{report_name_clean}_{timestamp}.json' (line 232)
output_filename(clean, timestamp) == clean \o <<"_">> \o timestamp \o <<".json">>

\* f'FlexReportsBackup_{timestamp}.zip' (line 258)
ZipName(timestamp) == <<"FlexReportsBackup_">> \o timestamp \o <<".zip">>

(***************************************************************************)
(* The service.  A response to requests.post is either a transport         *)
(* failure (connection error, timeout, non-2xx status: RequestException)   *)
(* or a body of well-formed JSON.                                          *)
(***************************************************************************)
NoResponse == [kind |-> "none"]
TransportFailure == [kind |-> "error"]
Body(j) == [kind |-> "ok", json |-> j]

\* the validation shared by the three list/login calls:
\*   if k1 not in data or k2 not in data[k1]: raise ValueError(text)
\*   ... data[k1][k2]
lookup2(data, k1, k2, text, about) ==
    LET c1 == contains(k1, data)
    IN  IF c1.kind = "raise" THEN c1
        ELSE IF ~c1.value THEN Raise("ValueError", text, about)
        ELSE LET d1 == getitem(data, k1)
             IN  IF d1.kind = "raise" THEN d1
                 ELSE LET c2 == contains(k2, d1.value)
                      IN  IF c2.kind = "raise" THEN c2
                          ELSE IF ~c2.value THEN Raise("ValueError", text, about)
                          ELSE getitem(d1.value, k2)

wrap_swallow(r, request_text, parse_text, about) ==
    IF r.kind = "raise" /\ r.type = "RequestException"
    THEN Return(PyList(<<>>))
    ELSE IF r.kind = "raise" /\ r.type \in {"KeyError", "ValueError"}
    THEN Raise("Exception", parse_text, about)
    ELSE r

\* the two except clauses every stage function ends with
wrap(r, request_text, parse_text, about) ==
    IF r.kind = "raise" /\ r.type = "RequestException"
    THEN Raise("Exception", request_text, about)
    ELSE IF r.kind = "raise" /\ r.type \in {"KeyError", "ValueError"}
    THEN Raise("Exception", parse_text, about)
    ELSE r

\* lines 92-106
authenticate_api(resp) ==
    wrap(IF resp.kind = "error"
         THEN Raise("RequestException", "transport", <<>>)
         ELSE LET login == lookup2(resp.json, "data", "loginAPI",
                              "Unexpected API response structure during authentication", <<>>)
              IN  IF login.kind = "raise" THEN login
                  ELSE getitem(login.value, "accessToken"),
         "Authentication request failed",
         "Failed to parse authentication response", <<>>)

\* lines 136-151
get_datasets(resp) ==
    wrap(IF resp.kind = "error"
         THEN Raise("RequestException", "transport", <<>>)
         ELSE lookup2(resp.json, "data", "dataSources",
                      "Unexpected API response structure when fetching datasets", <<>>),
         "Failed to fetch datasets",
         "Failed to parse datasets response", <<>>)

\* a failed request reported as a dataset without reports
get_flexreports_for_dataset_empty_on_error(dataset_name, resp) ==
    IF resp.kind = "error"
    THEN Return(PyList(<<>>))
    ELSE wrap(lookup2(resp.json, "data", "flexReports",
                      "Unexpected API response structure for dataset", dataset_name),
              "Failed to fetch FlexReports for dataset",
              "Failed to parse FlexReports response for dataset", dataset_name)

\* lines 175-190
get_flexreports_for_dataset(dataset_name, resp) ==
    wrap(IF resp.kind = "error"
         THEN Raise("RequestException", "transport", <<>>)
         ELSE lookup2(resp.json, "data", "flexReports",
                      "Unexpected API response structure for dataset", dataset_name),
         "Failed to fetch FlexReports for dataset",
         "Failed to parse FlexReports response for dataset", dataset_name)

(***************************************************************************)
(* The working directory.                                                  *)
(***************************************************************************)
Put_keep_existing(d, k, v) ==
    [x \in (DOMAIN d) \cup {k} |-> IF x \in DOMAIN d THEN d[x] ELSE v]

\* open(k, 'w') followed by a write of v
Put(d, k, v) == [x \in (DOMAIN d) \cup {k} |-> IF x = k THEN v ELSE d[x]]

Remove_noop(d, k) == d

\* os.remove(k)
Remove(d, k) == [x \in (DOMAIN d) \ {k} |-> d[x]]

\* response.text of the download of report_id, as written to the file
JsonFile(report_id) == [kind |-> "json", text |-> report_id, members |-> <<>>]
\* a file that open() created and write() did not complete
PartialFile == [kind |-> "json", text |-> PyStr(<<"partial">>), members |-> <<>>]
ZipFile(members) == [kind |-> "zip", text |-> None, members |-> members]

\* lines 211-241.  io is the outcome of open()/write(): "ok", "open_failed"
\* (no file appears) or "write_failed" (the file exists, incomplete).
download_flexreport(report_id, name, timestamp, resp, io, d) ==
    IF name.kind # "str"
    THEN [result |-> Raise("AttributeError", "object has no attribute 'replace'", <<>>),
          disk |-> d, requested |-> FALSE, clean |-> <<>>]
    ELSE LET clean == Sanitize(name.s)
             fname == output_filename(clean, timestamp)
         IN  IF resp.kind = "error"
             THEN [result |-> Raise("Exception", "Failed to download FlexReport", name.s),
                   disk |-> d, requested |-> TRUE, clean |-> clean]
             ELSE IF io = "ok"
             THEN [result |-> Return(fname),
                   disk |-> Put(d, fname, JsonFile(report_id)),
                   requested |-> TRUE, clean |-> clean]
             ELSE [result |-> Raise("Exception", "Failed to write file for FlexReport", name.s),
                   disk |-> IF io = "write_failed" THEN Put(d, fname, PartialFile) ELSE d,
                   requested |-> TRUE, clean |-> clean]

(***************************************************************************)
(* What the service may answer (the inputs of a run).                      *)
(***************************************************************************)
Token == PyStr(<<"tok">>)

AuthBodies ==
    { PyDict([data |-> PyDict([loginAPI |-> PyDict([accessToken |-> Token])])]),
      PyDict([data |-> PyDict([loginAPI |-> PyDict(<<>>)])]),
      PyDict([data |-> PyDict([loginAPI |-> None])]),
      PyDict([data |-> PyDict(<<>>)]),
      PyDict([data |-> None]),
      PyDict([errors |-> PyList(<<>>)]),
      None }

AuthResponses == {TransportFailure} \cup {Body(j) : j \in AuthBodies}

DatasetEntry(name) == PyDict([datasetName |-> PyStr(name)])
DatasetEntries == {DatasetEntry(<<"A">>), DatasetEntry(<<"B">>), PyDict(<<>>)}

RECURSIVE SeqsUpTo(_, _)
SeqsUpTo(S, n) ==
    IF n = 0 THEN {<<>>}
    ELSE LET shorter == SeqsUpTo(S, n - 1)
         IN  shorter \cup {Append(q, x) : q \in shorter, x \in S}

DatasetBodies ==
    { PyDict([data |-> PyDict([dataSources |-> PyList(l)])])
        : l \in {q \in SeqsUpTo(DatasetEntries, MaxDatasets) :
                    \A i, j \in 1..Len(q) : q[i] = q[j] => i = j} }
    \cup
    { PyDict([data |-> PyDict([dataSources |-> None])]),
      PyDict([data |-> PyDict(<<>>)]),
      PyDict([data |-> None]),
      PyDict([errors |-> PyList(<<>>)]) }

DatasetResponses == {TransportFailure} \cup {Body(j) : j \in DatasetBodies}

Report(id, name) == PyDict([id |-> PyStr(id), name |-> name])

\* "R 1" and "R_1" sanitize to the same name; the last report has no name
ReportPool ==
    { Report(<<"1">>, PyStr(<<"R", " ", "1">>)),
      Report(<<"2">>, PyStr(<<"R", "_", "1">>)),
      Report(<<"3">>, PyStr(<<"a", "/", "b">>)),
      Report(<<"4">>, None) }

\* the bodies of a report enumeration that returns at most room reports
ReportBodies(room) ==
    { PyDict([data |-> PyDict([flexReports |-> PyList(l)])])
        : l \in SeqsUpTo(ReportPool, IF room < MaxPerDataset THEN room ELSE MaxPerDataset) }
    \cup
    { PyDict([data |-> PyDict([flexReports |-> None])]),
      PyDict([data |-> PyDict(<<>>)]),
      PyDict([data |-> None]),
      PyDict([errors |-> PyList(<<>>)]) }

ReportResponses(room) == {TransportFailure} \cup {Body(j) : j \in ReportBodies(room)}

total_reports == Len(all_reports)

(***************************************************************************)
(* main (lines 291-383).                                                   *)
(***************************************************************************)
Printed(tag, reason) == [tag |-> tag, reason |-> reason]

\* the failed stage is entered again
main_except_retry(e) == UNCHANGED <<pc, out, exit_code>>

main_except_generic_only(e) ==
    IF e.type \in ExceptionSubclasses
    THEN /\ out' = Append(out, Printed("ERROR: Backup failed!", e))
         /\ exit_code' = {1}
         /\ pc' = "done"
    ELSE /\ pc' = "uncaught"
         /\ UNCHANGED <<out, exit_code>>

\* the except clauses of main (lines 374-383) applied to exception e
main_except(e) ==
    IF e.type = "KeyboardInterrupt"
    THEN /\ out' = Append(out, Printed("Backup interrupted by user.", e))
         /\ exit_code' = {1}
         /\ pc' = "done"
    ELSE IF e.type \in ExceptionSubclasses
    THEN /\ out' = Append(out, Printed("ERROR: Backup failed!", e))
         /\ exit_code' = {1}
         /\ pc' = "done"
    ELSE /\ pc' = "uncaught"
         /\ UNCHANGED <<out, exit_code>>

\* a call of requests.post: what was asked and whether the transport
\* delivered a response ("ok") or failed ("error")
Request(op, arg, resp) == [op |-> op, arg |-> arg, outcome |-> resp.kind]

\* Step 1 (line 300)
GetApiKey ==
    /\ pc = "get_api_key"
    /\ LET r == get_api_key(environ, API_KEY, stdin)
       IN  /\ api_key' = r.value
           /\ prompted' = r.prompted
    /\ pc' = "authenticate"
    /\ UNCHANGED <<environ, API_KEY, stdin, access_token, datasets, ds_idx,
                   current_timestamp, all_reports, report_lists, report_idx, downloaded_files,
                   report_name, report_name_clean, zipf, zip_idx, zip_filename,
                   cleanup_idx, disk, now, sigint, requests, response, out, exit_code>>

\* Step 2 (lines 303-305)
Authenticate ==
    /\ pc = "authenticate"
    /\ \E resp \in AuthResponses :
          LET r == authenticate_api(resp)
          IN  /\ requests' = Append(requests, Request("login", api_key, resp))
              /\ response' = resp
              /\ IF r.kind = "return"
                 THEN /\ access_token' = r.value
                      /\ pc' = "get_datasets"
                      /\ UNCHANGED <<out, exit_code>>
                 ELSE /\ main_except(r)
                      /\ UNCHANGED access_token
    /\ UNCHANGED <<environ, API_KEY, stdin, prompted, api_key, datasets, ds_idx,
                   current_timestamp, all_reports, report_lists, report_idx, downloaded_files,
                   report_name, report_name_clean, zipf, zip_idx, zip_filename,
                   cleanup_idx, disk, now, sigint>>

\* len(v)
pylen(v) ==
    IF v.kind = "list" THEN Return(Len(v.l))
    ELSE Raise("TypeError", "object has no len()", <<>>)

\* Steps 4 and 5 (lines 317-322)
GetDatasets ==
    /\ pc = "get_datasets"
    /\ \E resp \in DatasetResponses :
          LET r == get_datasets(resp)
              n == IF r.kind = "return" THEN pylen(r.value) ELSE r
          IN  /\ requests' = Append(requests, Request("datasets", <<>>, resp))
              /\ response' = resp
              /\ IF n.kind = "return"
                 THEN /\ datasets' = r.value
                      /\ current_timestamp' = strftime(now)
                      /\ pc' = "get_flexreports"
                      /\ UNCHANGED <<out, exit_code>>
                 ELSE /\ main_except(n)
                      /\ datasets' = IF r.kind = "return" THEN r.value ELSE datasets
                      /\ UNCHANGED current_timestamp
    /\ UNCHANGED <<environ, API_KEY, stdin, prompted, api_key, access_token,
                   ds_idx, all_reports, report_lists, report_idx, downloaded_files,
                   report_name, report_name_clean, zipf, zip_idx, zip_filename,
                   cleanup_idx, disk, now, sigint>>

extend_front(list, more) == more \o list

\* list.extend(more) (line 330)
extend(list, more) == list \o more

\* Step 6, one iteration of the loop (lines 327-330)
GetFlexreports ==
    /\ pc = "get_flexreports"
    /\ ds_idx <= Len(datasets.l)
    /\ LET dataset_name == getitem(datasets.l[ds_idx], "datasetName")
       IN  IF dataset_name.kind = "raise"
           THEN /\ main_except(dataset_name)
                /\ UNCHANGED <<requests, response, all_reports, report_lists, ds_idx>>
           ELSE \E resp \in ReportResponses(MaxReports - Len(all_reports)) :
                   LET r == get_flexreports_for_dataset(dataset_name.value.s, resp)
                   IN  /\ requests' = Append(requests,
                                         Request("reports", dataset_name.value.s, resp))
                       /\ response' = resp
                       /\ IF r.kind = "raise"
                          THEN /\ main_except(r)
                               /\ UNCHANGED <<all_reports, report_lists, ds_idx>>
                          ELSE IF r.value.kind # "list"
                          THEN /\ main_except(Raise("TypeError", "object is not iterable", <<>>))
                               /\ UNCHANGED <<all_reports, report_lists, ds_idx>>
                          ELSE /\ all_reports' = extend(all_reports, r.value.l)
                               /\ report_lists' = Append(report_lists, r.value.l)
                               /\ ds_idx' = ds_idx + 1
                               /\ UNCHANGED <<pc, out, exit_code>>
    /\ UNCHANGED <<environ, API_KEY, stdin, prompted, api_key, access_token,
                   datasets, current_timestamp, report_idx, downloaded_files,
                   report_name, report_name_clean, zipf, zip_idx, zip_filename,
                   cleanup_idx, disk, now, sigint>>

nothing_to_backup_no_dataset == Len(datasets.l) = 0

\* "if total_reports == 0" (line 336)
nothing_to_backup == total_reports = 0

\* lines 332-338 with no report enumerated
NoReports ==
    /\ pc = "get_flexreports"
    /\ ds_idx > Len(datasets.l)
    /\ nothing_to_backup
    /\ out' = Append(out, Printed("No FlexReports found to backup.", None))
    /\ exit_code' = {0}
    /\ pc' = "done"
    /\ UNCHANGED <<environ, API_KEY, stdin, prompted, api_key, access_token,
                   datasets, ds_idx, current_timestamp, all_reports, report_lists, report_idx,
                   downloaded_files, report_name, report_name_clean, zipf, zip_idx,
                   zip_filename, cleanup_idx, disk, now, sigint, requests, response>>

\* lines 332-340 with at least one report
StartDownload ==
    /\ pc = "get_flexreports"
    /\ ds_idx > Len(datasets.l)
    /\ ~nothing_to_backup
    /\ downloaded_files' = <<>>
    /\ pc' = "download"
    /\ UNCHANGED <<environ, API_KEY, stdin, prompted, api_key, access_token,
                   datasets, ds_idx, current_timestamp, all_reports, report_lists, report_idx,
                   report_name, report_name_clean, zipf, zip_idx,
                   zip_filename, cleanup_idx, disk, now, sigint, requests, response, out, exit_code>>

\* the stage main enters once the download loop is over (lines 354-356)
AfterDownloads_cleanup_first == "cleanup"

\* the download loop is not left after its last element
AfterDownloads_stay == "download"

AfterDownloads == "archive"

\* Step 7, one iteration of the loop (lines 342-352)
DownloadReport ==
    /\ pc = "download"
    /\ report_idx <= total_reports
    /\ LET report == all_reports[report_idx]
           name == getitem(report, "name")
           id   == getitem(report, "id")
       IN  IF name.kind = "raise" \/ id.kind = "raise"
           THEN /\ main_except(IF name.kind = "raise" THEN name ELSE id)
                /\ UNCHANGED <<requests, response, disk, downloaded_files, report_idx,
                               report_name, report_name_clean>>
           ELSE \E resp \in {TransportFailure, Body(id.value)},
                   io \in {"ok", "open_failed", "write_failed"} :
                   LET d == download_flexreport(id.value, name.value,
                                                current_timestamp, resp, io, disk)
                   IN  /\ requests' = IF d.requested
                                      THEN Append(requests,
                                                  Request("download", id.value.s, resp))
                                      ELSE requests
                       /\ response' = IF d.requested THEN resp ELSE response
                       /\ disk' = d.disk
                       /\ report_name' = name.value
                       /\ report_name_clean' = d.clean
                       /\ IF d.result.kind = "return"
                          THEN /\ downloaded_files' = Append(downloaded_files, d.result.value)
                               /\ report_idx' = report_idx + 1
                               /\ pc' = IF report_idx = total_reports
                                        THEN AfterDownloads ELSE "download"
                               /\ UNCHANGED <<out, exit_code>>
                          ELSE /\ main_except(d.result)
                               /\ UNCHANGED <<downloaded_files, report_idx>>
    /\ UNCHANGED <<environ, API_KEY, stdin, prompted, api_key, access_token,
                   datasets, ds_idx, current_timestamp, all_reports, report_lists,
                   zipf, zip_idx, zip_filename, cleanup_idx, now, sigint>>

\* "for file in downloaded_files" (line 262) has no file left at position i
zip_loop_done_early(i, files) == i >= Len(files)

zip_loop_done(i, files) == i > Len(files)

ArchiveError == Raise("Exception", "Failed to create backup archive", <<>>)

\* Step 8, create_backup_archive up to the creation of the zip file
\* (lines 258-261): zipfile.ZipFile(zip_filename, 'w') creates or truncates
\* the file, or raises an OSError and creates nothing
ArchiveOpen ==
    /\ pc = "archive"
    /\ \E io \in {"ok", "open_failed"} :
          IF io = "ok"
          THEN /\ disk' = Put(disk, ZipName(current_timestamp), ZipFile(<<>>))
               /\ zipf' = "open"
               /\ pc' = "zip_write"
               /\ UNCHANGED <<out, exit_code>>
          ELSE /\ main_except(ArchiveError)
               /\ UNCHANGED <<disk, zipf>>
    /\ UNCHANGED <<environ, API_KEY, stdin, prompted, api_key, access_token,
                   datasets, ds_idx, current_timestamp, all_reports, report_lists, report_idx,
                   downloaded_files, report_name, report_name_clean, zip_idx,
                   zip_filename, cleanup_idx, now, sigint, requests, response>>

\* the elements of a list
Range(q) == {q[i] : i \in 1..Len(q)}

\* create_backup_archive followed by cleanup whether it failed or not
ArchiveWrite_cleanup_on_failure ==
    /\ pc = "zip_write"
    /\ ~zip_loop_done(zip_idx, downloaded_files)
    /\ LET file == downloaded_files[zip_idx]
           zn   == ZipName(current_timestamp)
       IN  \E io \in {"ok", "write_failed"} :
              IF io = "ok" /\ file \in DOMAIN disk
              THEN /\ disk' = Put(disk, zn,
                              ZipFile(Append(disk[zn].members,
                                  [arcname |-> basename(file), content |-> disk[file]])))
                   /\ zip_idx' = zip_idx + 1
                   /\ UNCHANGED <<pc, zipf, out, exit_code>>
              ELSE /\ zipf' = "closed"
                   /\ main_except(ArchiveError)
                   /\ disk' = [f \in DOMAIN disk \ Range(downloaded_files) |-> disk[f]]
                   /\ UNCHANGED zip_idx
    /\ UNCHANGED <<environ, API_KEY, stdin, prompted, api_key, access_token,
                   datasets, ds_idx, current_timestamp, all_reports, report_lists, report_idx,
                   downloaded_files, report_name, report_name_clean,
                   zip_filename, cleanup_idx, now, sigint, requests, response>>

\* one iteration of the loop of create_backup_archive (lines 262-265):
\* zipf.write(file, os.path.basename(file)) reads the file and adds a member;
\* a missing file or a failed write raises an OSError, the with statement
\* closes the zip and line 270 wraps the error
ArchiveWrite ==
    /\ pc = "zip_write"
    /\ ~zip_loop_done(zip_idx, downloaded_files)
    /\ LET file == downloaded_files[zip_idx]
           zn   == ZipName(current_timestamp)
       IN  \E io \in {"ok", "write_failed"} :
              IF io = "ok" /\ file \in DOMAIN disk
              THEN /\ disk' = Put(disk, zn,
                              ZipFile(Append(disk[zn].members,
                                  [arcname |-> basename(file), content |-> disk[file]])))
                   /\ zip_idx' = zip_idx + 1
                   /\ UNCHANGED <<pc, zipf, out, exit_code>>
              ELSE /\ zipf' = "closed"
                   /\ main_except(ArchiveError)
                   /\ UNCHANGED <<disk, zip_idx>>
    /\ UNCHANGED <<environ, API_KEY, stdin, prompted, api_key, access_token,
                   datasets, ds_idx, current_timestamp, all_reports, report_lists, report_idx,
                   downloaded_files, report_name, report_name_clean,
                   zip_filename, cleanup_idx, now, sigint, requests, response>>

\* the end of create_backup_archive (lines 261, 267) and main's line 356:
\* leaving the with statement closes the zip; a failure to close is an OSError
ArchiveClose ==
    /\ pc = "zip_write"
    /\ zip_loop_done(zip_idx, downloaded_files)
    /\ zipf' = "closed"
    /\ \E io \in {"ok", "close_failed"} :
          IF io = "ok"
          THEN /\ zip_filename' = ZipName(current_timestamp)
               /\ pc' = "cleanup"
               /\ UNCHANGED <<out, exit_code>>
          ELSE /\ main_except(ArchiveError)
               /\ UNCHANGED zip_filename
    /\ UNCHANGED <<environ, API_KEY, stdin, prompted, api_key, access_token,
                   datasets, ds_idx, current_timestamp, all_reports, report_lists, report_idx,
                   downloaded_files, report_name, report_name_clean,
                   zip_idx, cleanup_idx, disk, now, sigint, requests, response>>

\* cleanup_temp_files without its try/except
CleanupFile_abort ==
    /\ pc = "cleanup"
    /\ cleanup_idx <= Len(downloaded_files)
    /\ LET file == downloaded_files[cleanup_idx]
       IN  IF file \in DOMAIN disk
           THEN \E io \in {"ok", "remove_failed"} :
                   IF io = "ok"
                   THEN /\ disk' = Remove(disk, file)
                        /\ cleanup_idx' = cleanup_idx + 1
                        /\ UNCHANGED <<pc, out, exit_code>>
                   ELSE /\ main_except(Raise("OSError", "remove", file))
                        /\ UNCHANGED <<disk, cleanup_idx>>
           ELSE /\ cleanup_idx' = cleanup_idx + 1
                /\ UNCHANGED <<pc, disk, out, exit_code>>
    /\ UNCHANGED <<environ, API_KEY, stdin, prompted, api_key, access_token,
                   datasets, ds_idx, current_timestamp, all_reports, report_lists, report_idx,
                   downloaded_files, report_name, report_name_clean, zipf, zip_idx,
                   zip_filename, now, sigint, requests, response>>

\* Step 9, one iteration of the loop of cleanup_temp_files (lines 281-288)
CleanupFile ==
    /\ pc = "cleanup"
    /\ cleanup_idx <= Len(downloaded_files)
    /\ LET file == downloaded_files[cleanup_idx]
       IN  IF file \in DOMAIN disk
           THEN \E io \in {"ok", "remove_failed"} :
                   IF io = "ok"
                   THEN /\ disk' = Remove(disk, file)
                        /\ UNCHANGED out
                   ELSE /\ out' = Append(out, Printed("Warning: Could not delete temporary file",
                                                      Raise("OSError", "remove", file)))
                        /\ UNCHANGED disk
           ELSE UNCHANGED <<disk, out>>
    /\ cleanup_idx' = cleanup_idx + 1
    /\ UNCHANGED <<pc, environ, API_KEY, stdin, prompted, api_key, access_token,
                   datasets, ds_idx, current_timestamp, all_reports, report_lists, report_idx,
                   downloaded_files, report_name, report_name_clean, zipf, zip_idx,
                   zip_filename, now, sigint, requests, response, exit_code>>

\* the return of cleanup_temp_files and the success summary (lines 362-372)
Succeed ==
    /\ pc = "cleanup"
    /\ cleanup_idx > Len(downloaded_files)
    /\ out' = Append(out, Printed("Backup completed successfully!", None))
    /\ exit_code' = {0}
    /\ pc' = "done"
    /\ UNCHANGED <<environ, API_KEY, stdin, prompted, api_key, access_token,
                   datasets, ds_idx, current_timestamp, all_reports, report_lists, report_idx,
                   downloaded_files, report_name, report_name_clean, zipf, zip_idx,
                   zip_filename, cleanup_idx, disk, now, sigint, requests, response>>

Running == pc \notin {"done", "uncaught"}

\* the operator presses Ctrl-C while main is inside its try block:
\* KeyboardInterrupt is raised at the current statement.  No stage function
\* catches it; a with statement that is open closes its zip; a download
\* that was writing its file may leave the file incomplete.
Interrupt ==
    /\ Running
    /\ sigint' = TRUE
    /\ main_except(Raise("KeyboardInterrupt", "", <<>>))
    /\ zipf' = IF zipf = "open" THEN "closed" ELSE zipf
    /\ \/ UNCHANGED disk
       \/ /\ pc = "download"
          /\ report_idx <= total_reports
          /\ LET name == getitem(all_reports[report_idx], "name")
             IN  /\ name.kind = "return"
                 /\ name.value.kind = "str"
                 /\ disk' = Put(disk, output_filename(Sanitize(name.value.s),
                                                      current_timestamp), PartialFile)
    /\ UNCHANGED <<environ, API_KEY, stdin, prompted, api_key, access_token,
                   datasets, ds_idx, current_timestamp, all_reports, report_lists, report_idx,
                   downloaded_files, report_name, report_name_clean, zip_idx,
                   zip_filename, cleanup_idx, now, requests, response>>

\* the wall clock advances while main runs
Tick ==
    /\ Running
    /\ now < MaxClock
    /\ now' = now + 1
    /\ UNCHANGED <<pc, environ, API_KEY, stdin, prompted, api_key, access_token,
                   datasets, ds_idx, current_timestamp, all_reports, report_lists, report_idx,
                   downloaded_files, report_name, report_name_clean, zipf, zip_idx,
                   zip_filename, cleanup_idx, disk, requests, response, sigint, out, exit_code>>

(***************************************************************************)
(* A run of the script.                                                    *)
(***************************************************************************)
Locals ==
    /\ pc = "get_api_key"
    /\ prompted = FALSE
    /\ api_key = <<>>
    /\ access_token = None
    /\ datasets = None
    /\ ds_idx = 1
    /\ current_timestamp = <<>>
    /\ all_reports = <<>>
    /\ report_lists = <<>>
    /\ report_idx = 1
    /\ downloaded_files = <<>>
    /\ report_name = None
    /\ report_name_clean = <<>>
    /\ zipf = "none"
    /\ zip_idx = 1
    /\ zip_filename = <<>>
    /\ cleanup_idx = 1
    /\ disk = <<>>
    /\ now = 0
    /\ requests = <<>>
    /\ response = NoResponse
    /\ sigint = FALSE
    /\ out = <<>>
    /\ exit_code = {}

Init ==
    /\ Locals
    /\ environ = <<>>
    /\ API_KEY = <<>>
    /\ stdin = <<"p">>

Next ==
    \/ GetApiKey
    \/ Authenticate
    \/ GetDatasets
    \/ GetFlexreports
    \/ NoReports
    \/ StartDownload
    \/ DownloadReport
    \/ ArchiveOpen
    \/ ArchiveWrite
    \/ ArchiveClose
    \/ CleanupFile
    \/ Succeed
    \/ Interrupt
    \/ Tick

Spec == Init /\ [][Next]_vars

\* the statements of main: one thread of control, and every call it makes
\* returns or raises (requests.post has a timeout, lines 93, 137, 176, 225)
MainStep ==
    \/ GetApiKey
    \/ Authenticate
    \/ GetDatasets
    \/ GetFlexreports
    \/ NoReports
    \/ StartDownload
    \/ DownloadReport
    \/ ArchiveOpen
    \/ ArchiveWrite
    \/ ArchiveClose
    \/ CleanupFile
    \/ Succeed

\* a run in which main is never suspended forever: the interpreter executes
\* the next statement as long as there is one
SpecLive == Init /\ [][Next]_vars /\ WF_vars(MainStep)

(***************************************************************************)
(* get_api_key on its own: every combination of the three sources.         *)
(***************************************************************************)
KeyStrings == StringsUpTo({" ", "\t", "k"}, MaxKeyLen)

InitKey ==
    /\ Locals
    /\ environ \in {<<>>} \cup {[CLOUDHEALTH_API_KEY |-> s] : s \in KeyStrings}
    /\ API_KEY \in KeyStrings
    /\ stdin \in KeyStrings

NextKey == GetApiKey

SpecKey == InitKey /\ [][NextKey]_vars

(***************************************************************************)
(* The sanitizer on its own: every report name over the characters it      *)
(* replaces and two it keeps, sanitized once and then once more.           *)
(***************************************************************************)
\* the characters the sanitizer is documented to replace
Replaced == {" ", "<", ">", ":", "\"", "/", "\\", "|", "?", "*"}

NameChars == Replaced \cup {"_", "a"}

InitSanitize ==
    /\ environ = <<>> /\ API_KEY = <<>> /\ stdin = <<>> /\ prompted = FALSE
    /\ api_key = <<>> /\ access_token = None /\ datasets = None /\ ds_idx = 1
    /\ current_timestamp = <<>> /\ all_reports = <<>> /\ report_lists = <<>> /\ report_idx = 1
    /\ downloaded_files = <<>> /\ zipf = "none" /\ zip_idx = 1
    /\ zip_filename = <<>> /\ cleanup_idx = 1 /\ disk = <<>> /\ now = 0
    /\ requests = <<>> /\ response = NoResponse /\ sigint = FALSE
    /\ out = <<>> /\ exit_code = {}
    /\ pc = "sanitize"
    /\ report_name \in {PyStr(n) : n \in StringsUpTo(NameChars, MaxNameLen)}
    /\ report_name_clean = <<>>

\* lines 213-217 applied to report_name
SanitizeName ==
    /\ pc = "sanitize"
    /\ report_name_clean' = Sanitize(report_name.s)
    /\ pc' = "sanitized"
    /\ UNCHANGED <<environ, API_KEY, stdin, prompted, api_key, access_token,
                   datasets, ds_idx, current_timestamp, all_reports, report_lists, report_idx,
                   downloaded_files, report_name, zipf, zip_idx, zip_filename,
                   cleanup_idx, disk, now, sigint, requests, response, out, exit_code>>

\* lines 213-217 applied to the name they produced
SanitizeAgain ==
    /\ pc = "sanitized"
    /\ report_name_clean' = Sanitize(report_name_clean)
    /\ pc' = "resanitized"
    /\ UNCHANGED <<environ, API_KEY, stdin, prompted, api_key, access_token,
                   datasets, ds_idx, current_timestamp, all_reports, report_lists, report_idx,
                   downloaded_files, report_name, zipf, zip_idx, zip_filename,
                   cleanup_idx, disk, now, sigint, requests, response, out, exit_code>>

NextSanitize == SanitizeName \/ SanitizeAgain

SpecSanitize == InitSanitize /\ [][NextSanitize]_vars

(***************************************************************************)
(* Properties.                                                             *)
(***************************************************************************)

\* the archive of this run as it is on disk
ArchiveOnDisk == ZipName(current_timestamp) \in DOMAIN disk
ArchiveMembers ==
    IF ArchiveOnDisk THEN disk[ZipName(current_timestamp)].members ELSE <<>>
ArcNames == {m.arcname : m \in Range(ArchiveMembers)}

\* create_backup_archive has returned to main (line 356 assigned zip_filename)
ArchiveReturned == zip_filename # <<>>

\* C1: whenever cleanup_temp_files has passed a file of its list (deleted it
\* or tried to), create_backup_archive has returned normally, the zip is
\* closed and on disk, and it holds a member named after that file.
C1_CleanupAfterArchive ==
    \A i \in 1..Len(downloaded_files) :
        cleanup_idx > i =>
            /\ ArchiveReturned
            /\ zip_filename = ZipName(current_timestamp)
            /\ zipf = "closed"
            /\ ArchiveOnDisk
            /\ basename(downloaded_files[i]) \in ArcNames

\* cleanup has deleted a file and is still running
C1_Witness ==
    /\ pc = "cleanup"
    /\ cleanup_idx > 1
    /\ downloaded_files[1] \notin DOMAIN disk

\* C2: once create_backup_archive has returned, one filename was returned
\* by download_flexreport for every enumerated report, and the basename of
\* each is the name of a member of the archive on disk.
C2_PackagingComplete ==
    ArchiveReturned =>
        /\ ArchiveOnDisk
        /\ Len(downloaded_files) = total_reports
        /\ \A i \in 1..total_reports :
              /\ downloaded_files[i] =
                    output_filename(Sanitize(all_reports[i].f.name.s), current_timestamp)
              /\ basename(downloaded_files[i]) \in ArcNames

\* an archive of three reports, two of them with different filenames
C2_Witness ==
    /\ ArchiveReturned
    /\ total_reports = 3
    /\ Cardinality(Range(downloaded_files)) >= 2

Success == pc = "done" /\ exit_code = {0}
Failure == pc = "done" /\ exit_code = {1}

WarningTag == "Warning: Could not delete temporary file"
ErrorTag == "ERROR: Backup failed!"
InterruptTag == "Backup interrupted by user."

\* cleanup printed a warning that names file
Warned(file) ==
    \E i \in 1..Len(out) : out[i].tag = WarningTag /\ out[i].reason.about = file

\* C3 as stated: after a successful run with at least one report no
\* per-report file is on disk and the archive is, whatever the deletions did.
C3_Original ==
    (Success /\ total_reports > 0) =>
        /\ \A i \in 1..Len(downloaded_files) : downloaded_files[i] \notin DOMAIN disk
        /\ ArchiveOnDisk

\* C3 (amended): after a successful run with at least one report the archive
\* is on disk, and a per-report file of the run is still on disk only if a
\* deletion of it failed and cleanup printed a warning that names it.
C3_CleanAfterSuccess ==
    (Success /\ total_reports > 0) =>
        /\ ArchiveOnDisk
        /\ disk[ZipName(current_timestamp)].kind = "zip"
        /\ \A i \in 1..Len(downloaded_files) :
              downloaded_files[i] \in DOMAIN disk => Warned(downloaded_files[i])

\* a successful run in which one deletion failed and another one succeeded
C3_Witness ==
    /\ Success
    /\ total_reports > 0
    /\ \E i, j \in 1..Len(downloaded_files) :
          /\ downloaded_files[i] \in DOMAIN disk
          /\ downloaded_files[j] \notin DOMAIN disk

\* a request of one of the kinds ops met a transport failure
TransportFailed(ops) ==
    \E i \in 1..Len(requests) : requests[i].op \in ops /\ requests[i].outcome = "error"

NoZipOnDisk == \A f \in DOMAIN disk : disk[f].kind # "zip"

\* C4: once the dataset request, a report-list request or a download request
\* has met a transport failure, main has returned 1, create_backup_archive
\* was never entered and no zip file exists.
C4_TransportFailureAborts ==
    TransportFailed({"datasets", "reports", "download"}) =>
        /\ Failure
        /\ zipf = "none"
        /\ ~ArchiveReturned
        /\ NoZipOnDisk

\* the second of three downloads met a transport failure, after the first
\* one had written its file
C4_Witness ==
    /\ TransportFailed({"download"})
    /\ total_reports = 3
    /\ report_idx = 2
    /\ Len(downloaded_files) = 1
    /\ downloaded_files[1] \in DOMAIN disk

\* every dataset has been asked for its reports and none was returned
EmptyEnumeration ==
    /\ datasets.kind = "list"
    /\ ds_idx > Len(datasets.l)
    /\ total_reports = 0

\* C5: when the enumeration is over and has returned no report (no dataset,
\* or only empty report lists), main is about to return or has returned, it
\* returns 0 unless the operator interrupted it, and it has issued no
\* download request, written no file, created no archive and run no cleanup.
C5_EmptyIsSuccess ==
    EmptyEnumeration =>
        /\ pc \in {"get_flexreports", "done"}
        /\ (pc = "done" /\ ~sigint) =>
              /\ exit_code = {0}
              /\ out = <<Printed("No FlexReports found to backup.", None)>>
        /\ \A i \in 1..Len(requests) : requests[i].op # "download"
        /\ DOMAIN disk = {}
        /\ downloaded_files = <<>>
        /\ zipf = "none"
        /\ ~ArchiveReturned
        /\ report_idx = 1 /\ zip_idx = 1 /\ cleanup_idx = 1

\* two datasets, both without reports, and the run has returned 0
C5_Witness ==
    /\ EmptyEnumeration
    /\ Len(datasets.l) = 2
    /\ Success

ErrorSummaries == {i \in 1..Len(out) : out[i].tag = ErrorTag}
InterruptSummaries == {i \in 1..Len(out) : out[i].tag = InterruptTag}

AllOps == {"login", "datasets", "reports", "download"}

\* the text each stage puts in front of a transport failure
RequestFailedText(op) ==
    CASE op = "login" -> "Authentication request failed"
      [] op = "datasets" -> "Failed to fetch datasets"
      [] op = "reports" -> "Failed to fetch FlexReports for dataset"
      [] op = "download" -> "Failed to download FlexReport"

C6_Invariant ==
    /\ pc # "uncaught"
    /\ TransportFailed(AllOps) =>
          /\ Failure
          /\ out[Len(out)].tag = ErrorTag
          /\ out[Len(out)].reason.msg = RequestFailedText(requests[Len(requests)].op)
    /\ ErrorSummaries # {} => Failure
    /\ exit_code = {0} => (pc = "done" /\ ErrorSummaries = {} /\ InterruptSummaries = {})
    /\ exit_code = {1} =>
          /\ pc = "done"
          /\ Cardinality(ErrorSummaries \cup InterruptSummaries) = 1
          /\ out[Len(out)].tag \in {ErrorTag, InterruptTag}
          /\ out[Len(out)].tag = ErrorTag =>
                /\ out[Len(out)].reason.kind = "raise"
                /\ out[Len(out)].reason.msg # ""

\* C6: no exception leaves main; a stage that fails ends the run in that
\* very step with status 1 and exactly one summary, the last thing printed,
\* which carries the reason; and once main has returned nothing runs any
\* more (no request, no file operation, no output).
C6_FailureIsTerminal ==
    /\ []C6_Invariant
    /\ [][pc = "done" => UNCHANGED vars]_vars

\* the archiver failed on its second member: the run is over with status 1,
\* the files are still there and cleanup never started
C6_Witness ==
    /\ Failure
    /\ ~sigint
    /\ zipf = "closed"
    /\ zip_idx = 2
    /\ ~ArchiveReturned
    /\ out[Len(out)].reason.msg = "Failed to create backup archive"

C7_Invariant ==
    sigint =>
        /\ Failure
        /\ out[Len(out)] = Printed(InterruptTag, Raise("KeyboardInterrupt", "", <<>>))
        /\ ErrorSummaries = {}
        /\ Cardinality(InterruptSummaries) = 1
        /\ InterruptTag # ErrorTag

\* C7: when the operator interrupts a running stage, main returns 1 in that
\* step, the last thing printed is the interruption message and no failure
\* summary is printed; the step removes no file from disk and forgets none
\* of the downloaded filenames.
C7_InterruptIsFailure ==
    /\ []C7_Invariant
    /\ [][(sigint' /\ ~sigint) =>
              /\ DOMAIN disk \subseteq DOMAIN disk'
              /\ downloaded_files' = downloaded_files]_vars

\* interrupted during cleanup, after the first file was deleted: the
\* archive and the second file are on disk
C7_Witness ==
    /\ sigint
    /\ pc = "done"
    /\ cleanup_idx = 2
    /\ Len(downloaded_files) >= 2
    /\ ArchiveOnDisk
    /\ downloaded_files[1] \notin DOMAIN disk
    /\ downloaded_files[2] \in DOMAIN disk

\* a string that is empty or made of whitespace only
Blank(s) == \A i \in 1..Len(s) : s[i] \in Whitespace

EnvSet == EnvVar \in DOMAIN environ

\* C8: get_api_key returns the environment value when the variable is set
\* and not blank, else the hardcoded constant when it is not blank, else
\* what the operator typed, unchanged; it prompts in the third case only.
C8_CredentialPriority ==
    pc = "authenticate" =>
        IF EnvSet /\ ~Blank(environ[EnvVar])
        THEN api_key = environ[EnvVar] /\ ~prompted
        ELSE IF ~Blank(API_KEY)
        THEN api_key = API_KEY /\ ~prompted
        ELSE api_key = stdin /\ prompted

\* the variable is set to whitespace, the constant is a key with a space
\* around it, and the operator would type something else
C8_Witness ==
    /\ pc = "authenticate"
    /\ EnvSet
    /\ environ[EnvVar] = <<" ", "\t">>
    /\ API_KEY = <<"k", " ">>
    /\ stdin = <<"k">>
    /\ api_key = <<"k", " ">>
    /\ ~prompted

\* C9: after one pass and after two passes of the sanitizer the result has
\* the length of the report name, an underscore wherever the name has a
\* space or one of < > : " / \ | ? *, and the name's own character
\* everywhere else; so it holds none of these characters and the second
\* pass changes nothing.
C9_SanitizeIdempotent ==
    pc \in {"sanitized", "resanitized"} =>
        /\ Len(report_name_clean) = Len(report_name.s)
        /\ \A i \in 1..Len(report_name.s) :
              /\ report_name.s[i] \in Replaced => report_name_clean[i] = "_"
              /\ report_name.s[i] \notin Replaced => report_name_clean[i] = report_name.s[i]
              /\ report_name_clean[i] \notin Replaced

\* a name with a backslash, a kept character and a space, sanitized twice
C9_Witness ==
    /\ pc = "resanitized"
    /\ report_name.s = <<"\\", "a", " ">>
    /\ report_name_clean = <<"_", "a", "_">>

C10_Invariant ==
    /\ cleanup_idx > 1 => (pc \in {"cleanup", "done"} /\ ErrorSummaries = {})
    /\ (Success /\ total_reports > 0) => cleanup_idx = Len(downloaded_files) + 1
    /\ (pc = "done" /\ ArchiveReturned /\ ~sigint) => Success

\* C10: cleanup_temp_files goes through its whole list: a step of it that
\* is not interrupted moves to the next file and stays in cleanup, a file
\* it found and could not delete gets a warning that names it, no failure
\* summary is ever printed once cleanup has started, and the run that
\* reaches cleanup returns 0 unless the operator interrupts it.
C10_CleanupNonFatal ==
    /\ []C10_Invariant
    /\ [][(pc = "cleanup" /\ cleanup_idx <= Len(downloaded_files)
            /\ ~sigint' /\ now' = now) =>
              /\ pc' = "cleanup"
              /\ cleanup_idx' = cleanup_idx + 1
              /\ exit_code' = exit_code
              /\ LET file == downloaded_files[cleanup_idx]
                 IN  (file \in DOMAIN disk /\ file \in DOMAIN disk') =>
                        /\ Len(out') = Len(out) + 1
                        /\ out'[Len(out')].tag = WarningTag
                        /\ out'[Len(out')].reason.about = file]_vars

\* a successful run in which a deletion failed with a warning and a later
\* file of the list was deleted all the same
C10_Witness ==
    /\ Success
    /\ \E i, j \in 1..Len(downloaded_files) :
          /\ i < j
          /\ downloaded_files[i] \in DOMAIN disk
          /\ Warned(downloaded_files[i])
          /\ downloaded_files[j] # downloaded_files[i]
          /\ downloaded_files[j] \notin DOMAIN disk

RECURSIVE Flatten(_)
Flatten(lists) ==
    IF lists = <<>> THEN <<>> ELSE Head(lists) \o Flatten(Tail(lists))

IsReportsRequest(r) == r.op = "reports"
IsDownloadRequest(r) == r.op = "download"
ReportsRequests == SelectSeq(requests, IsReportsRequest)
DownloadRequests == SelectSeq(requests, IsDownloadRequest)

\* the filename download_flexreport gives the i-th enumerated report
FilenameOf(i) ==
    output_filename(Sanitize(all_reports[i].f.name.s), current_timestamp)

\* C11: the report lists are asked for dataset by dataset in the order the
\* service returned the datasets, and all_reports is the concatenation, in
\* that order, of the lists returned; a download request is in the log only
\* when every dataset has been enumerated, and no report-list request
\* follows one; the k-th download request asks for the k-th report of
\* all_reports, and the k-th downloaded filename is the one of that report.
C11_EnumerateThenDownloadInOrder ==
    /\ all_reports = Flatten(report_lists)
    /\ \A k \in 1..Len(ReportsRequests) :
          /\ k <= Len(datasets.l)
          /\ ReportsRequests[k].arg = datasets.l[k].f.datasetName.s
    /\ DownloadRequests # <<>> =>
          /\ ds_idx > Len(datasets.l)
          /\ Len(report_lists) = Len(datasets.l)
    /\ \A i, j \in 1..Len(requests) :
          (i < j /\ requests[i].op = "download") => requests[j].op = "download"
    /\ \A k \in 1..Len(DownloadRequests) :
          /\ k <= total_reports
          /\ DownloadRequests[k].arg = all_reports[k].f.id.s
    /\ Len(downloaded_files) <= Len(DownloadRequests)
    /\ Len(DownloadRequests) <= Len(downloaded_files) + 1
    /\ \A i \in 1..Len(downloaded_files) : downloaded_files[i] = FilenameOf(i)

\* two datasets returned different non-empty lists and the reports of both
\* have been downloaded
C11_Witness ==
    /\ Len(report_lists) = 2
    /\ report_lists[1] # <<>>
    /\ report_lists[2] # <<>>
    /\ report_lists[1][1] # report_lists[2][1]
    /\ Len(downloaded_files) = total_reports
    /\ total_reports >= 2

\* v is a JSON object without the key k
Missing(v, k) == v.kind = "dict" /\ k \notin DOMAIN v.f
\* v is a JSON object whose key k holds null
NullAt(v, k) == v.kind = "dict" /\ k \in DOMAIN v.f /\ v.f[k] = None
\* v is a JSON object whose key k holds a JSON object
ObjectAt(v, k) == v.kind = "dict" /\ k \in DOMAIN v.f /\ v.f[k].kind = "dict"

\* a login body without data.loginAPI.accessToken: data missing or null,
\* loginAPI missing or null, accessToken missing
LacksLoginStructure(j) ==
    \/ Missing(j, "data")
    \/ NullAt(j, "data")
    \/ /\ ObjectAt(j, "data")
       /\ \/ Missing(j.f.data, "loginAPI")
          \/ NullAt(j.f.data, "loginAPI")
          \/ /\ ObjectAt(j.f.data, "loginAPI")
             /\ Missing(j.f.data.f.loginAPI, "accessToken")

\* a list body without data.<field>: data missing or null, field missing
LacksListStructure(j, field) ==
    \/ Missing(j, "data")
    \/ NullAt(j, "data")
    \/ (ObjectAt(j, "data") /\ Missing(j.f.data, field))

LacksStructure(op, j) ==
    CASE op = "login" -> LacksLoginStructure(j)
      [] op = "datasets" -> LacksListStructure(j, "dataSources")
      [] op = "reports" -> LacksListStructure(j, "flexReports")
      [] OTHER -> FALSE

\* the text each stage puts in front of a parse failure
ParseFailedText(op) ==
    CASE op = "login" -> "Failed to parse authentication response"
      [] op = "datasets" -> "Failed to parse datasets response"
      [] op = "reports" -> "Failed to parse FlexReports response for dataset"

LastRequest == requests[Len(requests)]

\* C12 as stated: when the body received by authenticate_api, get_datasets
\* or get_flexreports_for_dataset lacks the nested structure, the run ends
\* with the parse failure of that stage (an Exception with the stage's
\* wrapped text, naming the dataset for a report list) and nothing else.
C12_Original ==
    (requests # <<>> /\ response.kind = "ok"
        /\ LacksStructure(LastRequest.op, response.json)) =>
        /\ Failure
        /\ out[Len(out)] =
              Printed(ErrorTag,
                      Raise("Exception", ParseFailedText(LastRequest.op),
                            IF LastRequest.op = "reports" THEN LastRequest.arg ELSE <<>>))

\* the same with the null cases left out: a body in which a key of the
\* path is missing (the cases the code does wrap)
C12_MissingKeyIsParseFailure ==
    (requests # <<>> /\ response.kind = "ok"
        /\ LacksStructure(LastRequest.op, response.json)
        /\ ~NullAt(response.json, "data")
        /\ ~(ObjectAt(response.json, "data") /\ NullAt(response.json.f.data, "loginAPI"))) =>
        /\ Failure
        /\ out[Len(out)] =
              Printed(ErrorTag,
                      Raise("Exception", ParseFailedText(LastRequest.op),
                            IF LastRequest.op = "reports" THEN LastRequest.arg ELSE <<>>))

\* every download was done, main has returned without having been
\* interrupted, and create_backup_archive never returned to it
ArchiveFailed ==
    /\ pc = "done"
    /\ ~sigint
    /\ total_reports > 0
    /\ Len(downloaded_files) = total_reports
    /\ ~ArchiveReturned

C13_Invariant ==
    ArchiveFailed =>
        /\ Failure
        /\ out = <<Printed(ErrorTag, ArchiveError)>>
        /\ cleanup_idx = 1
        /\ \A i \in 1..Len(downloaded_files) :
              /\ downloaded_files[i] \in DOMAIN disk
              /\ disk[downloaded_files[i]].kind = "json"

C13_Frame ==
    pc \in {"archive", "zip_write"} =>
        (\A f \in DOMAIN disk :
            disk[f].kind = "json" => (f \in DOMAIN disk' /\ disk'[f] = disk[f]))

\* C13: when create_backup_archive fails (the zip cannot be created, a
\* member cannot be written, the zip cannot be closed) main returns 1 with
\* the archiver's failure as the only thing printed, cleanup has not
\* started and every downloaded file is on disk; and no step taken while
\* the archiver runs removes or changes a downloaded file.
C13_ArchiveFailureKeepsFiles ==
    /\ []C13_Invariant
    /\ [][C13_Frame]_vars

\* the archiver failed on its second member: the zip holds the first one,
\* and both downloaded files are on disk
C13_Witness ==
    /\ ArchiveFailed
    /\ zip_idx = 2
    /\ Len(ArchiveMembers) = 1
    /\ Cardinality(Range(downloaded_files)) >= 2
    /\ Range(downloaded_files) \subseteq DOMAIN disk

\* the i-th and the j-th downloaded report got the same filename
Collide(i, j) == i < j /\ downloaded_files[i] = downloaded_files[j]

\* the last downloaded report that got the filename of the i-th
LastWithNameOf(i) ==
    CHOOSE j \in 1..Len(downloaded_files) :
        /\ downloaded_files[j] = downloaded_files[i]
        /\ \A k \in 1..Len(downloaded_files) :
              downloaded_files[k] = downloaded_files[i] => k <= j

ArchiveContents == {m.content : m \in Range(ArchiveMembers)}

\* C14: two downloaded reports whose names sanitize to the same string get
\* the same filename, which is then twice in downloaded_files; while the
\* run goes on, the file of that name holds the body of the last of them;
\* once the archiver has returned, every member of that basename holds that
\* last body, and the archive holds fewer distinct bodies than
\* total_reports.
C14_CollisionOverwrites ==
    \A i, j \in 1..Len(downloaded_files) :
        /\ (i < j /\ Sanitize(all_reports[i].f.name.s) = Sanitize(all_reports[j].f.name.s))
              => Collide(i, j)
        /\ Collide(i, j) =>
              /\ (pc # "done" /\ downloaded_files[i] \in DOMAIN disk) =>
                    disk[downloaded_files[i]] = JsonFile(all_reports[LastWithNameOf(i)].f.id)
              /\ ArchiveReturned =>
                    /\ \A m \in Range(ArchiveMembers) :
                          m.arcname = basename(downloaded_files[i]) =>
                              m.content = JsonFile(all_reports[LastWithNameOf(i)].f.id)
                    /\ Cardinality(ArchiveContents) < total_reports

\* a successful run of three reports: the first two are different reports
\* with the same filename, the third has its own
C14_Witness ==
    /\ Success
    /\ total_reports = 3
    /\ Collide(1, 2)
    /\ all_reports[1].f.id # all_reports[2].f.id
    /\ downloaded_files[3] # downloaded_files[1]
    /\ Cardinality(ArchiveContents) = 2

PreDownloadStages == {"get_api_key", "authenticate", "get_datasets", "get_flexreports"}

\* the names of the reports enumerated so far, sanitized
CleanNames ==
    {Sanitize(all_reports[i].f.name.s) :
        i \in {k \in 1..Len(all_reports) : all_reports[k].f.name.kind = "str"}}

\* f is the name of a report file that embeds the timestamp ts
IsArtifactNameWith(f, ts) ==
    \E clean \in CleanNames : f = clean \o <<"_">> \o ts \o <<".json">>

\* f is the name of an archive that embeds the timestamp ts
IsArchiveNameWith(f, ts) == f = <<"FlexReportsBackup_">> \o ts \o <<".zip">>

\* every file name the run has produced embeds current_timestamp
NamesShareTimestamp ==
    /\ \A f \in DOMAIN disk :
          IF disk[f].kind = "zip"
          THEN IsArchiveNameWith(f, current_timestamp)
          ELSE IsArtifactNameWith(f, current_timestamp)
    /\ \A i \in 1..Len(downloaded_files) :
          IsArtifactNameWith(downloaded_files[i], current_timestamp)
    /\ zip_filename # <<>> => IsArchiveNameWith(zip_filename, current_timestamp)

\* C15 as stated: the timestamp is captured at the start of the download
\* phase (it is not yet set while the run is in a stage before the
\* downloads), it is set once and never changed, and every report file name
\* and the archive name embed it.
C15_Original ==
    /\ pc \in PreDownloadStages => current_timestamp = <<>>
    /\ pc \in {"download", "archive", "zip_write", "cleanup"} => current_timestamp # <<>>
    /\ NamesShareTimestamp

C15_Invariant ==
    /\ current_timestamp # <<>> <=> datasets.kind = "list"
    /\ current_timestamp = <<>> =>
          /\ ReportsRequests = <<>>
          /\ DownloadRequests = <<>>
          /\ DOMAIN disk = {}
    /\ NamesShareTimestamp

C15_CaptureStep ==
    current_timestamp' # current_timestamp =>
        /\ current_timestamp = <<>>
        /\ current_timestamp' = strftime(now)
        /\ pc = "get_datasets"
        /\ requests'[Len(requests')].op = "datasets"
        /\ datasets'.kind = "list"
        /\ all_reports' = <<>>

\* C15 (amended): the timestamp is captured at most once per run, and in
\* exactly the runs whose dataset enumeration succeeds: it is read from the
\* clock right after the dataset list has been received, before the first
\* report enumeration request, and it never changes afterwards; every
\* report file name and the archive name of the run embed that value.
C15_TimestampCapturedAfterDatasets ==
    /\ []C15_Invariant
    /\ [][C15_CaptureStep]_vars

\* a successful run of at least two distinct files that ended when the
\* clock no longer showed the captured value
C15_Witness ==
    /\ Success
    /\ current_timestamp # strftime(now)
    /\ Cardinality(Range(downloaded_files)) >= 2
    /\ IsArchiveNameWith(zip_filename, current_timestamp)

IsLoginRequest(r) == r.op = "login"
IsDatasetsRequest(r) == r.op = "datasets"

StageOf(op) ==
    CASE op = "login" -> 1
      [] op = "datasets" -> 2
      [] op = "reports" -> 3
      [] op = "download" -> 4

PcRank(p) ==
    CASE p = "get_api_key" -> 0
      [] p = "authenticate" -> 1
      [] p = "get_datasets" -> 2
      [] p = "get_flexreports" -> 3
      [] p = "download" -> 4
      [] p \in {"archive", "zip_write"} -> 5
      [] p = "cleanup" -> 6
      [] OTHER -> 7

C16_Invariant ==
    /\ Len(SelectSeq(requests, IsLoginRequest)) <= 1
    /\ Len(SelectSeq(requests, IsDatasetsRequest)) <= 1
    /\ Len(ReportsRequests) <= (IF datasets.kind = "list" THEN Len(datasets.l) ELSE 0)
    /\ Len(DownloadRequests) <= Len(all_reports)
    /\ \A i, j \in 1..Len(requests) :
          i < j => /\ StageOf(requests[i].op) <= StageOf(requests[j].op)
                   /\ requests[i].outcome = "ok"
    /\ Len(ArchiveMembers) <= Len(downloaded_files)

C16_Step ==
    /\ Running
    /\ PcRank(pc') >= PcRank(pc)
    /\ ds_idx' >= ds_idx /\ report_idx' >= report_idx
    /\ zip_idx' >= zip_idx /\ cleanup_idx' >= cleanup_idx
    /\ requests' # requests =>
          /\ exit_code = {} /\ out = <<>>
          /\ Len(requests') = Len(requests) + 1
          /\ StageOf(requests'[Len(requests')].op) = PcRank(pc)
    /\ zipf' # zipf =>
          \/ zipf = "none" /\ zipf' = "open" /\ pc = "archive"
          \/ zipf = "open" /\ zipf' = "closed"
    /\ pc = "cleanup" => DOMAIN disk' \subseteq DOMAIN disk
    /\ PcRank(pc) < PcRank("cleanup") => DOMAIN disk \subseteq DOMAIN disk'

\* C16: the login and the dataset list are requested at most once, report
\* lists at most once per dataset entry and report bodies at most once per
\* enumerated report; the requests of a run are in stage order and only
\* the last of them can have failed; no step leaves a terminal state, no
\* step goes back to an earlier stage or an earlier loop position, the
\* archive is opened at most once and closed at most once, and the cleanup
\* pass runs over the files once, after which none of them reappears.
C16_NoRetry ==
    /\ []C16_Invariant
    /\ [][C16_Step]_vars

\* a run that failed on its second download, after two report lists
C16_Witness ==
    /\ Failure
    /\ ~sigint
    /\ Len(ReportsRequests) = 2
    /\ Len(DownloadRequests) = 2
    /\ requests[Len(requests)].op = "download"
    /\ requests[Len(requests)].outcome = "error"

\* every request of the run was answered, and the enumeration went through
\* every dataset entry
EnumerationSucceeded ==
    /\ \A i \in 1..Len(requests) : requests[i].outcome = "ok"
    /\ Len(SelectSeq(requests, IsLoginRequest)) = 1
    /\ Len(SelectSeq(requests, IsDatasetsRequest)) = 1
    /\ datasets.kind = "list"
    /\ Len(ReportsRequests) = Len(datasets.l)
    /\ Len(report_lists) = Len(datasets.l)
    /\ all_reports = Flatten(report_lists)

NothingCreated ==
    /\ total_reports = 0
    /\ DOMAIN disk = {}
    /\ DownloadRequests = <<>>
    /\ downloaded_files = <<>>
    /\ zipf = "none"

EverythingPackaged ==
    /\ total_reports > 0
    /\ Len(DownloadRequests) = total_reports
    /\ Len(downloaded_files) = total_reports
    /\ \A k \in 1..total_reports :
          /\ DownloadRequests[k].arg = all_reports[k].f.id.s
          /\ downloaded_files[k] = FilenameOf(k)
    /\ ArchiveReturned
    /\ zipf = "closed"
    /\ ArchiveOnDisk
    /\ Len(ArchiveMembers) = total_reports
    /\ \A k \in 1..total_reports :
          /\ ArchiveMembers[k].arcname = basename(downloaded_files[k])
          /\ ArchiveMembers[k].content = JsonFile(all_reports[LastWithNameOf(k)].f.id)
    /\ cleanup_idx = total_reports + 1

\* C17: when main has returned 0, no error or interrupt summary was
\* printed, every request was answered and every stage function returned,
\* and either no report was enumerated and nothing was requested for
\* download or written, or every enumerated report was downloaded once, in
\* order, and the closed archive on disk holds one complete member per
\* download.  A status is returned at most once.
C17_SuccessIsSound ==
    /\ Cardinality(exit_code) <= 1
    /\ Success =>
          /\ ~sigint
          /\ ErrorSummaries = {}
          /\ InterruptSummaries = {}
          /\ EnumerationSucceeded
          /\ NothingCreated \/ EverythingPackaged

\* main has returned 0 after three downloads from two datasets, although a
\* deletion failed during cleanup
C17_Witness ==
    /\ Success
    /\ Len(datasets.l) = 2
    /\ total_reports = 3
    /\ \E i \in 1..Len(downloaded_files) : Warned(downloaded_files[i])

\* C18: under SpecLive every run ends: from some point on main has returned
\* 0 and stays so, or has returned 1 and stays so.
C18_Terminates == <>[]Success \/ <>[]Failure

\* the end of the longest run: two datasets, three reports, every request,
\* every archive member and every deletion done
C18_Witness ==
    /\ Success
    /\ Len(requests) = 7
    /\ Len(ArchiveMembers) = 3
    /\ cleanup_idx = 4
    /\ DOMAIN disk = {zip_filename}

====
